---- MODULE Spec2Model ----
(***************************************************************************)
(* Model of the exercise state machine of fit-form-focus                   *)
(* (src/services/exerciseService.ts): the exercise catalog EXERCISES,      *)
(* initExerciseState, processExerciseState and the four per-exercise       *)
(* evaluators processSquat, processPushup, processBicepCurl and            *)
(* processShoulderPress; and of the frame loop that drives it in webcam    *)
(* mode (src/components/FitnessTracker): WebcamView's frame-capture effect *)
(* and FitnessTracker's processFrame and handlers; and of the chat         *)
(* assistant (src/components/ChatBot, src/services/chatService.ts).        *)
(*                                                                         *)
(* Time is in milliseconds, as Date.now() returns it.  A feedback entry is *)
(* a tuple of the pieces of the string the code builds, so that a template *)
(* literal keeps the numbers it interpolates: `Starting set ${n}` is       *)
(* <<"Starting set ", n>>.                                                 *)
(***************************************************************************)
EXTENDS Integers, Sequences, FiniteSets, TLC

VARIABLES
    state,  \* the ExerciseState the caller holds (the last returned value)
    now,    \* the wall clock, what Date.now() returns
    call,   \* the last call of processExerciseState: its input state and
            \* pose, and whether the call before it had the same pose
    opposite, \* observer: since the last counted rep (or the start) a frame
              \* has shown the tracked joint beyond the threshold opposite to
              \* the one that completes a rep
    total,    \* observer: the number of reps counted since the initial state
    tracker,  \* FitnessTracker's hooks isModelLoaded, isTracking,
              \* currentExercise and whether pose is non-null (exerciseState
              \* is the variable state)
    hasPermission, \* WebcamView's hook: the camera stream is playing
    loops,    \* the captureFrame loops alive: the one the current effect
              \* started (and whether its first callback has run) and the
              \* ones earlier effects left behind, each with the processFrame
              \* closure it calls
    pending,  \* the invocations of processFrame awaiting detectPose, each
              \* with the values its closure captured
    frames,   \* the number of animation-frame callbacks run so far
    chatBot,  \* ChatBot's hooks messages, input, isLoading and isOpen
    send      \* the invocation of ChatBot.handleSend in progress: where it
              \* waits, what its closure captured, what getChatResponse
              \* settled with; and the number of sends so far

uiVars == <<tracker, hasPermission, loops, pending, frames>>

chatVars == <<chatBot, send>>

vars == <<state, now, call, opposite, total, tracker, hasPermission, loops,
          pending, frames, chatBot, send>>

----------------------------------------------------------------------------
(* ExerciseType and RepState, with the string values of the enums.         *)

SQUAT == "squat"
PUSHUP == "pushup"
BICEP_CURL == "bicepCurl"
SHOULDER_PRESS == "shoulderPress"
NONE == "none"

ExerciseType == {SQUAT, PUSHUP, BICEP_CURL, SHOULDER_PRESS, NONE}

STARTING == "starting"
UP == "up"
DOWN == "down"
COUNTING == "counting"
RESTING == "resting"
INCORRECT_FORM == "incorrectForm"

RepState == {STARTING, UP, DOWN, COUNTING, RESTING, INCORRECT_FORM}

(* The catalog: the fields of ExerciseSettings the state machine reads,    *)
(* and primaryLandmarks.                                                   *)

(* the primaryLandmarks of the push-up, the curl and the press *)
ArmLandmarks ==
    {"left_shoulder", "left_elbow", "left_wrist",
     "right_shoulder", "right_elbow", "right_wrist"}

(* a catalog whose squat entry does not list left_ankle as primary *)
EXERCISES_ankleNotPrimary ==
    [t \in ExerciseType |->
        CASE t = SQUAT ->
               [targetReps |-> 10, restBetweenSets |-> 60, sets |-> 3,
                thresholds |-> [upAngle |-> 160, downAngle |-> 90],
                primaryLandmarks |-> {"left_hip", "left_knee",
                                      "right_hip", "right_knee",
                                      "right_ankle"}]
          [] t = PUSHUP ->
               [targetReps |-> 12, restBetweenSets |-> 60, sets |-> 3,
                thresholds |-> [upAngle |-> 160, downAngle |-> 90],
                primaryLandmarks |-> ArmLandmarks]
          [] t = BICEP_CURL ->
               [targetReps |-> 12, restBetweenSets |-> 45, sets |-> 3,
                thresholds |-> [upAngle |-> 45, downAngle |-> 160],
                primaryLandmarks |-> ArmLandmarks]
          [] t = SHOULDER_PRESS ->
               [targetReps |-> 10, restBetweenSets |-> 60, sets |-> 3,
                thresholds |-> [upAngle |-> 170, downAngle |-> 90],
                primaryLandmarks |-> ArmLandmarks]
          [] t = NONE ->
               [targetReps |-> 0, restBetweenSets |-> 0, sets |-> 0,
                thresholds |-> [upAngle |-> 0, downAngle |-> 0],
                primaryLandmarks |-> {}]]

(* EXERCISES *)
EXERCISES ==
    [t \in ExerciseType |->
        CASE t = SQUAT ->
               [targetReps |-> 10, restBetweenSets |-> 60, sets |-> 3,
                thresholds |-> [upAngle |-> 160, downAngle |-> 90],
                primaryLandmarks |-> {"left_hip", "left_knee", "left_ankle",
                                      "right_hip", "right_knee",
                                      "right_ankle"}]
          [] t = PUSHUP ->
               [targetReps |-> 12, restBetweenSets |-> 60, sets |-> 3,
                thresholds |-> [upAngle |-> 160, downAngle |-> 90],
                primaryLandmarks |-> ArmLandmarks]
          [] t = BICEP_CURL ->
               [targetReps |-> 12, restBetweenSets |-> 45, sets |-> 3,
                thresholds |-> [upAngle |-> 45, downAngle |-> 160],
                primaryLandmarks |-> ArmLandmarks]
          [] t = SHOULDER_PRESS ->
               [targetReps |-> 10, restBetweenSets |-> 60, sets |-> 3,
                thresholds |-> [upAngle |-> 170, downAngle |-> 90],
                primaryLandmarks |-> ArmLandmarks]
          [] t = NONE ->
               [targetReps |-> 0, restBetweenSets |-> 0, sets |-> 0,
                thresholds |-> [upAngle |-> 0, downAngle |-> 0],
                primaryLandmarks |-> {}]]

----------------------------------------------------------------------------
(* Poses.  A pose is what the pose detector delivers for one frame: the    *)
(* landmarks it found and their pixel positions.  The angle between three  *)
(* landmarks is computed by calculateAngle of poseDetectionService; the    *)
(* model carries, with each pose, the value that function returns for the  *)
(* four landmark triples the evaluators pass to it.  null is TRUE for the  *)
(* absent pose (the `null` of `Pose | null`).                              *)

Landmarks ==
    {"left_shoulder", "left_elbow", "left_wrist", "left_hip", "left_knee",
     "left_ankle", "right_shoulder", "right_elbow", "right_wrist",
     "right_hip", "right_knee", "right_ankle"}

LeftLeg == <<"left_hip", "left_knee", "left_ankle">>
LeftTorso == <<"left_shoulder", "left_hip", "left_knee">>
LeftArm == <<"left_shoulder", "left_elbow", "left_wrist">>
RightArm == <<"right_shoulder", "right_elbow", "right_wrist">>

Triples == {LeftLeg, LeftTorso, LeftArm, RightArm}

getKeypoint(pose, name) == name \in pose.present

calculateAngle(pose, a, b, c) == pose.angle[<<a, b, c>>]

calculateVerticalDistance(pose, a, b) == pose.y[a] - pose.y[b]

----------------------------------------------------------------------------
(* initExerciseState(type), called at clock value t.                       *)
initExerciseState(type, t) ==
    [type |-> type,
     repCount |-> 0,
     setCount |-> 1,
     repState |-> STARTING,
     formFeedback |-> << >>,
     lastRepTimestamp |-> t,
     formCorrect |-> TRUE]

push(s, msg) == [s EXCEPT !.formFeedback = Append(@, msg)]

(* flag that reports the message but leaves formCorrect as it was *)
flag_messageOnly(s, msg) == push(s, msg)

(* state.formFeedback.push(msg); state.formCorrect = false                 *)
flag(s, msg) == [push(s, msg) EXCEPT !.formCorrect = FALSE]

(* Math.round(x) for x = num / 1000: the nearest integer, halves upwards.  *)
RoundMs(num) == (num + 500) \div 1000

(* completeRep closing the set one rep late: > for >= *)
completeRep_lateSet(s, settings, t, next) ==
    LET counted == [s EXCEPT !.repState = next,
                             !.repCount = @ + 1,
                             !.lastRepTimestamp = t]
    IN  IF counted.repCount > settings.targetReps
        THEN LET closed == [counted EXCEPT !.setCount = @ + 1,
                                           !.repCount = 0,
                                           !.repState = RESTING]
             IN  IF closed.setCount > settings.sets
                 THEN push([closed EXCEPT !.setCount = settings.sets],
                           <<"Workout complete! Great job!">>)
                 ELSE push(closed,
                           <<"Set ", closed.setCount - 1,
                             " complete! Rest for ",
                             settings.restBetweenSets, " seconds.">>)
        ELSE counted

(* completeRep without the clamp of setCount to settings.sets *)
completeRep_noClamp(s, settings, t, next) ==
    LET counted == [s EXCEPT !.repState = next,
                             !.repCount = @ + 1,
                             !.lastRepTimestamp = t]
    IN  IF counted.repCount >= settings.targetReps
        THEN LET closed == [counted EXCEPT !.setCount = @ + 1,
                                           !.repCount = 0,
                                           !.repState = RESTING]
             IN  IF closed.setCount > settings.sets
                 THEN push(closed, <<"Workout complete! Great job!">>)
                 ELSE push(closed,
                           <<"Set ", closed.setCount - 1,
                             " complete! Rest for ",
                             settings.restBetweenSets, " seconds.">>)
        ELSE counted

(* completeRep naming the set in its message after the increment *)
completeRep_wrongSetNumber(s, settings, t, next) ==
    LET counted == [s EXCEPT !.repState = next,
                             !.repCount = @ + 1,
                             !.lastRepTimestamp = t]
    IN  IF counted.repCount >= settings.targetReps
        THEN LET closed == [counted EXCEPT !.setCount = @ + 1,
                                           !.repCount = 0,
                                           !.repState = RESTING]
             IN  IF closed.setCount > settings.sets
                 THEN push([closed EXCEPT !.setCount = settings.sets],
                           <<"Workout complete! Great job!">>)
                 ELSE push(closed,
                           <<"Set ", closed.setCount,
                             " complete! Rest for ",
                             settings.restBetweenSets, " seconds.">>)
        ELSE counted

(* completeRep announcing the end of the workout one set early *)
completeRep_earlyComplete(s, settings, t, next) ==
    LET counted == [s EXCEPT !.repState = next,
                             !.repCount = @ + 1,
                             !.lastRepTimestamp = t]
    IN  IF counted.repCount >= settings.targetReps
        THEN LET closed == [counted EXCEPT !.setCount = @ + 1,
                                           !.repCount = 0,
                                           !.repState = RESTING]
             IN  IF closed.setCount >= settings.sets
                 THEN push([closed EXCEPT !.setCount = settings.sets],
                           <<"Workout complete! Great job!">>)
                 ELSE push(closed,
                           <<"Set ", closed.setCount - 1,
                             " complete! Rest for ",
                             settings.restBetweenSets, " seconds.">>)
        ELSE counted

(* completeRep counting the rep twice *)
completeRep_countsTwice(s, settings, t, next) ==
    LET counted == [s EXCEPT !.repState = next,
                             !.repCount = @ + 2,
                             !.lastRepTimestamp = t]
    IN  IF counted.repCount >= settings.targetReps
        THEN LET closed == [counted EXCEPT !.setCount = @ + 1,
                                           !.repCount = 0,
                                           !.repState = RESTING]
             IN  IF closed.setCount > settings.sets
                 THEN push([closed EXCEPT !.setCount = settings.sets],
                           <<"Workout complete! Great job!">>)
                 ELSE push(closed,
                           <<"Set ", closed.setCount - 1,
                             " complete! Rest for ",
                             settings.restBetweenSets, " seconds.">>)
        ELSE counted

(* The body of a rep-completing case of the switch: the rep is counted,    *)
(* the timestamp taken, and the set closed when targetReps is reached.     *)
(* next is the RepState the case assigns first (UP for squat and push-up,  *)
(* DOWN for curl and press).                                               *)
completeRep(s, settings, t, next) ==
    LET counted == [s EXCEPT !.repState = next,
                             !.repCount = @ + 1,
                             !.lastRepTimestamp = t]
    IN  IF counted.repCount >= settings.targetReps
        THEN LET closed == [counted EXCEPT !.setCount = @ + 1,
                                           !.repCount = 0,
                                           !.repState = RESTING]
             IN  IF closed.setCount > settings.sets
                 THEN push([closed EXCEPT !.setCount = settings.sets],
                           <<"Workout complete! Great job!">>)
                 ELSE push(closed,
                           <<"Set ", closed.setCount - 1,
                             " complete! Rest for ",
                             settings.restBetweenSets, " seconds.">>)
        ELSE counted

(* restingCase comparing the rounded number of seconds *)
restingCase_rounded(s, settings, t) ==
    LET restMs == t - s.lastRepTimestamp
    IN  IF RoundMs(restMs) >= settings.restBetweenSets
        THEN push([s EXCEPT !.repState = STARTING],
                  <<"Starting set ", s.setCount>>)
        ELSE push(s, <<"Rest: ",
                       RoundMs(settings.restBetweenSets * 1000 - restMs),
                       "s remaining">>)

(* restingCase with the remaining seconds rounded down *)
restingCase_floor(s, settings, t) ==
    LET restMs == t - s.lastRepTimestamp
    IN  IF restMs >= settings.restBetweenSets * 1000
        THEN push([s EXCEPT !.repState = STARTING],
                  <<"Starting set ", s.setCount>>)
        ELSE push(s, <<"Rest: ",
                       (settings.restBetweenSets * 1000 - restMs) \div 1000,
                       "s remaining">>)

(* restingCase restarting the timer when the rest ends *)
restingCase_restamps(s, settings, t) ==
    LET restMs == t - s.lastRepTimestamp
    IN  IF restMs >= settings.restBetweenSets * 1000
        THEN push([s EXCEPT !.repState = STARTING,
                            !.lastRepTimestamp = t],
                  <<"Starting set ", s.setCount>>)
        ELSE push(s, <<"Rest: ",
                       RoundMs(settings.restBetweenSets * 1000 - restMs),
                       "s remaining">>)

(* case RepState.RESTING of the switch.  restTime is                       *)
(* (Date.now() - lastRepTimestamp) / 1000; the comparison with             *)
(* restBetweenSets is made in milliseconds.                                *)
restingCase(s, settings, t) ==
    LET restMs == t - s.lastRepTimestamp
    IN  IF restMs >= settings.restBetweenSets * 1000
        THEN push([s EXCEPT !.repState = STARTING],
                  <<"Starting set ", s.setCount>>)
        ELSE push(s, <<"Rest: ",
                       RoundMs(settings.restBetweenSets * 1000 - restMs),
                       "s remaining">>)

(* gateFires with the gate left out *)
gateFires_never(s) == FALSE

(* gateFires without the exception for STARTING *)
gateFires_inStarting(s) ==
    /\ ~s.formCorrect
    /\ s.repState # INCORRECT_FORM
    /\ s.repState # RESTING

(* gateFires without the exception for RESTING *)
gateFires_inResting(s) ==
    /\ ~s.formCorrect
    /\ s.repState # INCORRECT_FORM
    /\ s.repState # STARTING

(* The form gate shared by the four evaluators: a form violation outside   *)
(* INCORRECT_FORM, RESTING and STARTING.                                   *)
gateFires(s) ==
    /\ ~s.formCorrect
    /\ s.repState # INCORRECT_FORM
    /\ s.repState # RESTING
    /\ s.repState # STARTING

(* gate reporting the message without the forced state *)
gate_messageOnly(s) == push(s, <<"Fix your form to continue">>)

(* gate forcing the state without the message *)
gate_noMessage(s) == [s EXCEPT !.repState = INCORRECT_FORM]

gate(s) == push([s EXCEPT !.repState = INCORRECT_FORM],
                <<"Fix your form to continue">>)

(* recovers with the recovery branch left out *)
recovers_never(s) == FALSE

(* recovers without the test of the form flag *)
recovers_anyForm(s) == s.repState = INCORRECT_FORM

recovers(s) == s.formCorrect /\ s.repState = INCORRECT_FORM

(* recover restarting the cycle at STARTING *)
recover_toStarting(s, next) ==
    push([s EXCEPT !.repState = STARTING],
         <<"Good form, continue your exercise">>)

(* recover choosing the other of the two states *)
recover_swapped(s, next) ==
    push([s EXCEPT !.repState = IF next = UP THEN DOWN ELSE UP],
         <<"Good form, continue your exercise">>)

recover(s, next) == push([s EXCEPT !.repState = next],
                         <<"Good form, continue your exercise">>)

----------------------------------------------------------------------------
(* squatCycle with non-strict comparisons *)
squatCycle_nonStrict(s, kneeAngle, settings, t) ==
    CASE s.repState \in {STARTING, UP} ->
               IF kneeAngle <= settings.thresholds.downAngle
               THEN [s EXCEPT !.repState = DOWN]
               ELSE s
          [] s.repState = DOWN ->
               IF kneeAngle >= settings.thresholds.upAngle
               THEN completeRep(s, settings, t, UP)
               ELSE s
          [] s.repState = RESTING -> restingCase(s, settings, t)
          [] OTHER -> s

(* squatCycle leaving repState at DOWN when it counts a rep *)
squatCycle_staysDown(s, kneeAngle, settings, t) ==
    CASE s.repState \in {STARTING, UP} ->
               IF kneeAngle < settings.thresholds.downAngle
               THEN [s EXCEPT !.repState = DOWN]
               ELSE s
          [] s.repState = DOWN ->
               IF kneeAngle > settings.thresholds.upAngle
               THEN completeRep(s, settings, t, DOWN)
               ELSE s
          [] s.repState = RESTING -> restingCase(s, settings, t)
          [] OTHER -> s

(* The switch on state.repState of processSquat.                           *)
squatCycle(s, kneeAngle, settings, t) ==
    CASE s.repState \in {STARTING, UP} ->
               IF kneeAngle < settings.thresholds.downAngle
               THEN [s EXCEPT !.repState = DOWN]
               ELSE s
          [] s.repState = DOWN ->
               IF kneeAngle > settings.thresholds.upAngle
               THEN completeRep(s, settings, t, UP)
               ELSE s
          [] s.repState = RESTING -> restingCase(s, settings, t)
          [] OTHER -> s

(* processSquat(state, pose, settings), with Date.now() = t.               *)
processSquat(s, pose, settings, t) ==
    IF \/ ~getKeypoint(pose, "left_hip")
       \/ ~getKeypoint(pose, "left_knee")
       \/ ~getKeypoint(pose, "left_ankle")
    THEN flag(s, <<"Cannot detect legs clearly">>)
    ELSE
    LET kneeAngle == calculateAngle(pose, "left_hip", "left_knee", "left_ankle")
        backBad ==
            /\ getKeypoint(pose, "left_shoulder")
            /\ getKeypoint(pose, "left_hip")
            /\ getKeypoint(pose, "left_knee")
            /\ calculateAngle(pose, "left_shoulder", "left_hip", "left_knee") < 160
        s1 == IF backBad THEN flag(s, <<"Keep your back straighter">>) ELSE s
        kneeBad ==
            /\ getKeypoint(pose, "left_knee")
            /\ getKeypoint(pose, "left_ankle")
            /\ pose.x["left_knee"] < pose.x["left_ankle"] - 50
        s2 == IF kneeBad
              THEN flag(s1, <<"Knees too far forward, shift weight to heels">>)
              ELSE s1
        s3 == IF recovers(s2)
              THEN recover(s2, IF kneeAngle < settings.thresholds.downAngle
                               THEN DOWN ELSE UP)
              ELSE s2
    IN  IF gateFires(s2) THEN gate(s2)
        ELSE squatCycle(s3, kneeAngle, settings, t)

(* The switch on state.repState of processPushup.                          *)
pushupCycle(s, elbowAngle, settings, t) ==
    CASE s.repState \in {STARTING, UP} ->
               IF elbowAngle < settings.thresholds.downAngle
               THEN [s EXCEPT !.repState = DOWN]
               ELSE s
          [] s.repState = DOWN ->
               IF elbowAngle > settings.thresholds.upAngle
               THEN completeRep(s, settings, t, UP)
               ELSE s
          [] s.repState = RESTING -> restingCase(s, settings, t)
          [] OTHER -> s

(* processPushup(state, pose, settings), with Date.now() = t.              *)
processPushup(s, pose, settings, t) ==
    IF \/ ~getKeypoint(pose, "left_shoulder")
       \/ ~getKeypoint(pose, "left_elbow")
       \/ ~getKeypoint(pose, "left_wrist")
    THEN flag(s, <<"Cannot detect arms clearly">>)
    ELSE
    LET elbowAngle ==
            calculateAngle(pose, "left_shoulder", "left_elbow", "left_wrist")
        bodyAngle ==
            calculateAngle(pose, "left_shoulder", "left_hip", "left_knee")
        bodyBad ==
            /\ getKeypoint(pose, "left_shoulder")
            /\ getKeypoint(pose, "left_hip")
            /\ getKeypoint(pose, "left_knee")
            /\ (IF bodyAngle - 180 < 0 THEN 180 - bodyAngle
                                       ELSE bodyAngle - 180) > 15
        s2 == IF bodyBad THEN flag(s, <<"Keep your body straight">>) ELSE s
        s3 == IF recovers(s2)
              THEN recover(s2, IF elbowAngle < settings.thresholds.downAngle
                               THEN DOWN ELSE UP)
              ELSE s2
    IN  IF gateFires(s2) THEN gate(s2)
        ELSE pushupCycle(s3, elbowAngle, settings, t)

(* bicepCurlCycle with non-strict comparisons *)
bicepCurlCycle_nonStrict(s, elbowAngle, settings, t) ==
    CASE s.repState \in {STARTING, DOWN} ->
               IF elbowAngle <= settings.thresholds.upAngle
               THEN [s EXCEPT !.repState = UP]
               ELSE s
          [] s.repState = UP ->
               IF elbowAngle >= settings.thresholds.downAngle
               THEN completeRep(s, settings, t, DOWN)
               ELSE s
          [] s.repState = RESTING -> restingCase(s, settings, t)
          [] OTHER -> s

(* The switch on state.repState of processBicepCurl.                       *)
bicepCurlCycle(s, elbowAngle, settings, t) ==
    CASE s.repState \in {STARTING, DOWN} ->
               IF elbowAngle < settings.thresholds.upAngle
               THEN [s EXCEPT !.repState = UP]
               ELSE s
          [] s.repState = UP ->
               IF elbowAngle > settings.thresholds.downAngle
               THEN completeRep(s, settings, t, DOWN)
               ELSE s
          [] s.repState = RESTING -> restingCase(s, settings, t)
          [] OTHER -> s

(* processBicepCurl(state, pose, settings), with Date.now() = t.           *)
processBicepCurl(s, pose, settings, t) ==
    IF \/ ~getKeypoint(pose, "right_shoulder")
       \/ ~getKeypoint(pose, "right_elbow")
       \/ ~getKeypoint(pose, "right_wrist")
    THEN flag(s, <<"Cannot detect arms clearly">>)
    ELSE
    LET elbowAngle ==
            calculateAngle(pose, "right_shoulder", "right_elbow", "right_wrist")
        elbowBad == pose.x["right_elbow"] > pose.x["right_shoulder"] + 30
        s1 == IF elbowBad
              THEN flag(s, <<"Keep your elbows close to your body">>)
              ELSE s
        verticalShoulderMovement ==
            calculateVerticalDistance(pose, "right_shoulder", "right_elbow")
        shoulderBad ==
            (IF verticalShoulderMovement < 0 THEN -verticalShoulderMovement
                                             ELSE verticalShoulderMovement) > 40
        s2 == IF shoulderBad
              THEN flag(s1, <<"Minimize shoulder movement, focus on elbow flexion">>)
              ELSE s1
        s3 == IF recovers(s2)
              THEN recover(s2, IF elbowAngle < settings.thresholds.upAngle
                               THEN UP ELSE DOWN)
              ELSE s2
    IN  IF gateFires(s2) THEN gate(s2)
        ELSE bicepCurlCycle(s3, elbowAngle, settings, t)

(* shoulderPressCycle deciding on the elbow angle alone *)
shoulderPressCycle_angleOnly(s, elbowAngle, wristVerticalPosition, settings, t) ==
    CASE s.repState \in {STARTING, DOWN} ->
               IF elbowAngle > settings.thresholds.upAngle
               THEN [s EXCEPT !.repState = UP]
               ELSE s
          [] s.repState = UP ->
               IF elbowAngle < settings.thresholds.downAngle
               THEN completeRep(s, settings, t, DOWN)
               ELSE s
          [] s.repState = RESTING -> restingCase(s, settings, t)
          [] OTHER -> s

(* The switch on state.repState of processShoulderPress.                   *)
shoulderPressCycle(s, elbowAngle, wristVerticalPosition, settings, t) ==
    CASE s.repState \in {STARTING, DOWN} ->
               IF /\ elbowAngle > settings.thresholds.upAngle
                  /\ wristVerticalPosition < -100
               THEN [s EXCEPT !.repState = UP]
               ELSE s
          [] s.repState = UP ->
               IF /\ elbowAngle < settings.thresholds.downAngle
                  /\ wristVerticalPosition > -50
               THEN completeRep(s, settings, t, DOWN)
               ELSE s
          [] s.repState = RESTING -> restingCase(s, settings, t)
          [] OTHER -> s

(* processShoulderPress(state, pose, settings), with Date.now() = t.       *)
processShoulderPress(s, pose, settings, t) ==
    IF \/ ~getKeypoint(pose, "right_shoulder")
       \/ ~getKeypoint(pose, "right_elbow")
       \/ ~getKeypoint(pose, "right_wrist")
    THEN flag(s, <<"Cannot detect arms clearly">>)
    ELSE
    LET elbowAngle ==
            calculateAngle(pose, "right_shoulder", "right_elbow", "right_wrist")
        wristVerticalPosition ==
            calculateVerticalDistance(pose, "right_wrist", "right_shoulder")
        wristBad == pose.x["right_wrist"] < pose.x["right_elbow"] - 20
        s2 == IF wristBad THEN flag(s, <<"Press directly upward">>) ELSE s
        s3 == IF recovers(s2)
              THEN recover(s2, IF wristVerticalPosition < -100
                               THEN UP ELSE DOWN)
              ELSE s2
    IN  IF gateFires(s2) THEN gate(s2)
        ELSE shoulderPressCycle(s3, elbowAngle, wristVerticalPosition, settings, t)

(* processExerciseState without the test for an absent pose *)
processExerciseState_noNullCheck(currentState, pose, t) ==
    IF currentState.type = NONE
    THEN currentState
    ELSE LET newState == [currentState EXCEPT !.formFeedback = << >>,
                                              !.formCorrect = TRUE]
             exerciseSettings == EXERCISES[currentState.type]
         IN  CASE currentState.type = SQUAT ->
                    processSquat(newState, pose, exerciseSettings, t)
               [] currentState.type = PUSHUP ->
                    processPushup(newState, pose, exerciseSettings, t)
               [] currentState.type = BICEP_CURL ->
                    processBicepCurl(newState, pose, exerciseSettings, t)
               [] currentState.type = SHOULDER_PRESS ->
                    processShoulderPress(newState, pose, exerciseSettings, t)
               [] OTHER -> newState

(* processExerciseState that keeps the feedback of the previous frame *)
processExerciseState_keepsFeedback(currentState, pose, t) ==
    IF pose.null \/ currentState.type = NONE
    THEN currentState
    ELSE LET newState == [currentState EXCEPT !.formCorrect = TRUE]
             exerciseSettings == EXERCISES[currentState.type]
         IN  CASE currentState.type = SQUAT ->
                    processSquat(newState, pose, exerciseSettings, t)
               [] currentState.type = PUSHUP ->
                    processPushup(newState, pose, exerciseSettings, t)
               [] currentState.type = BICEP_CURL ->
                    processBicepCurl(newState, pose, exerciseSettings, t)
               [] currentState.type = SHOULDER_PRESS ->
                    processShoulderPress(newState, pose, exerciseSettings, t)
               [] OTHER -> newState

(* processExerciseState(currentState, pose), with Date.now() = t.  The     *)
(* clone newState starts with empty feedback and formCorrect = true.       *)
processExerciseState(currentState, pose, t) ==
    IF pose.null \/ currentState.type = NONE
    THEN currentState
    ELSE LET newState == [currentState EXCEPT !.formFeedback = << >>,
                                              !.formCorrect = TRUE]
             exerciseSettings == EXERCISES[currentState.type]
         IN  CASE currentState.type = SQUAT ->
                    processSquat(newState, pose, exerciseSettings, t)
               [] currentState.type = PUSHUP ->
                    processPushup(newState, pose, exerciseSettings, t)
               [] currentState.type = BICEP_CURL ->
                    processBicepCurl(newState, pose, exerciseSettings, t)
               [] currentState.type = SHOULDER_PRESS ->
                    processShoulderPress(newState, pose, exerciseSettings, t)
               [] OTHER -> newState

----------------------------------------------------------------------------
(* The same call on the objects it touches.  The caller's ExerciseState is *)
(* the object "currentState", whose formFeedback field refers to the array *)
(* "callerFeedback"; the heap h maps object names to their fields (obj)    *)
(* and array names to their contents (arr).                                *)
load(currentState) ==
    [obj |-> [o \in {"currentState"} |->
                 [currentState EXCEPT !.formFeedback = "callerFeedback"]],
     arr |-> [a \in {"callerFeedback"} |-> currentState.formFeedback]]

(* the value of an object: its fields, the array reference followed *)
deref(h, o) == [h.obj[o] EXCEPT !.formFeedback = h.arr[h.obj[o].formFeedback]]

(* const newState = { ...currentState }: a new object with the same field  *)
(* values, so its formFeedback is the caller's array.                      *)
shallowClone(h) ==
    [h EXCEPT !.obj = ("newState" :> h.obj["currentState"]) @@ h.obj]

(* clearing the feedback by emptying the array newState refers to *)
clearFeedback_inPlace(h) ==
    [h EXCEPT !.arr[h.obj["newState"].formFeedback] = << >>]

(* newState.formFeedback = []: a new, empty array *)
clearFeedback(h) ==
    [h EXCEPT !.obj["newState"].formFeedback = "newFeedback",
              !.arr = ("newFeedback" :> << >>) @@ h.arr]

(* The writes of the rest of the call: every assignment is to a field of   *)
(* newState and every push is to the array newState.formFeedback refers    *)
(* to; r is the value newState has after them.                             *)
assign(h, r) ==
    [h EXCEPT !.obj["newState"] =
                  [r EXCEPT !.formFeedback = h.obj["newState"].formFeedback],
              !.arr[h.obj["newState"].formFeedback] = r.formFeedback]

(* the switch over currentState.type and the evaluator it calls *)
evaluate(newState, pose, t) ==
    LET exerciseSettings == EXERCISES[newState.type]
    IN  CASE newState.type = SQUAT ->
               processSquat(newState, pose, exerciseSettings, t)
          [] newState.type = PUSHUP ->
               processPushup(newState, pose, exerciseSettings, t)
          [] newState.type = BICEP_CURL ->
               processBicepCurl(newState, pose, exerciseSettings, t)
          [] newState.type = SHOULDER_PRESS ->
               processShoulderPress(newState, pose, exerciseSettings, t)
          [] OTHER -> newState

(* processExerciseState on the heap: the value it returns and the value    *)
(* the caller's object has when it returns.                                *)
processOnHeap(currentState, pose, t) ==
    LET h0 == load(currentState)
    IN  IF pose.null \/ currentState.type = NONE
        THEN [returned |-> deref(h0, "currentState"),
              caller |-> deref(h0, "currentState")]
        ELSE LET h1 == clearFeedback(shallowClone(h0))
                 h2 == assign(h1, [deref(h1, "newState")
                                      EXCEPT !.formCorrect = TRUE])
                 h3 == assign(h2, evaluate(deref(h2, "newState"), pose, t))
             IN  [returned |-> deref(h3, "newState"),
                  caller |-> deref(h3, "currentState")]

----------------------------------------------------------------------------
(* The frames fed to the machine.  For each exercise the poses cover the   *)
(* loss of each required landmark, the loss of an optional one, both sides *)
(* of every form threshold, and a tracked angle just outside and exactly   *)
(* on each of the two thresholds of the catalog.                           *)

BasePose ==
    [null |-> FALSE,
     present |-> Landmarks,
     angle |-> [tr \in Triples |-> 180],
     x |-> [l \in Landmarks |-> 0],
     y |-> [l \in Landmarks |-> 0]]

NullPose == [BasePose EXCEPT !.null = TRUE, !.present = {}]

Without(names) == {[BasePose EXCEPT !.present = Landmarks \ {n}] : n \in names}

Low(type) ==
    LET th == EXERCISES[type].thresholds
    IN  IF th.downAngle < th.upAngle THEN th.downAngle ELSE th.upAngle

High(type) ==
    LET th == EXERCISES[type].thresholds
    IN  IF th.downAngle < th.upAngle THEN th.upAngle ELSE th.downAngle

ThresholdAngles(type) == {Low(type) - 1, Low(type), High(type), High(type) + 1}

SquatPoses ==
    Without({"left_hip", "left_knee", "left_ankle"}) \cup
    {[BasePose EXCEPT !.present = Landmarks \ gone,
                      !.angle = [@ EXCEPT ![LeftLeg] = a, ![LeftTorso] = b],
                      !.x = [@ EXCEPT !["left_knee"] = kx]] :
        <<gone, b, kx>> \in {<<{}, 160, -50>>, <<{}, 159, -50>>,
                             <<{}, 160, -51>>, <<{"left_shoulder"}, 159, -50>>},
        a \in ThresholdAngles(SQUAT)}

PushupPoses ==
    Without({"left_shoulder", "left_elbow", "left_wrist"}) \cup
    {[BasePose EXCEPT !.present = Landmarks \ gone,
                      !.angle = [@ EXCEPT ![LeftArm] = a, ![LeftTorso] = b]] :
        <<gone, b>> \in {<<{}, 165>>, <<{}, 164>>, <<{"left_hip"}, 164>>},
        a \in ThresholdAngles(PUSHUP)}

BicepCurlPoses ==
    Without({"right_shoulder", "right_elbow", "right_wrist"}) \cup
    {[BasePose EXCEPT !.angle = [@ EXCEPT ![RightArm] = a],
                      !.x = [@ EXCEPT !["right_elbow"] = ex],
                      !.y = [@ EXCEPT !["right_elbow"] = ey]] :
        <<ex, ey>> \in {<<30, 40>>, <<31, 40>>, <<30, 41>>, <<-31, -40>>},
        a \in ThresholdAngles(BICEP_CURL)}

ShoulderPressPoses ==
    Without({"right_shoulder", "right_elbow", "right_wrist"}) \cup
    {[BasePose EXCEPT !.angle = [@ EXCEPT ![RightArm] = a],
                      !.x = [@ EXCEPT !["right_wrist"] = -20],
                      !.y = [@ EXCEPT !["right_wrist"] = wy]] :
        a \in ThresholdAngles(SHOULDER_PRESS),
        wy \in {-101, -100, -50, -49}} \cup
    {[BasePose EXCEPT !.angle = [@ EXCEPT ![RightArm] = a],
                      !.x = [@ EXCEPT !["right_wrist"] = -21],
                      !.y = [@ EXCEPT !["right_wrist"] = wy]] :
        <<a, wy>> \in {<<Low(SHOULDER_PRESS) - 1, -49>>,
                       <<High(SHOULDER_PRESS) + 1, -101>>}}

Poses(type) ==
    {NullPose} \cup
    (CASE type = SQUAT -> SquatPoses
       [] type = PUSHUP -> PushupPoses
       [] type = BICEP_CURL -> BicepCurlPoses
       [] type = SHOULDER_PRESS -> ShoulderPressPoses
       [] OTHER -> {BasePose})

(* The clock.  A frame arrives with no measurable delay after the previous *)
(* one or a whole rest period later, until MaxGaps rest periods have       *)
(* passed.  Shorter delays are the business of AnyElapsed below.           *)
MaxGaps == 2

RestMs(type) == EXERCISES[type].restBetweenSets * 1000

FrameGaps(type) == {0, RestMs(type)}

NoCall ==
    [done |-> FALSE,
     pre |-> initExerciseState(NONE, 0),
     pose |-> NullPose,
     again |-> FALSE]

(* What the observer `opposite` watches.  counted: the call from `before`  *)
(* to `after` counted a rep.  oppositeExtreme: the frame shows the tracked *)
(* joint beyond the threshold at which the exercise does not count         *)
(* (squat, push-up: angle < downAngle; curl: angle < upAngle; press:       *)
(* angle > upAngle).                                                       *)
counted(before, after) ==
    \/ after.repCount = before.repCount + 1
    \/ after.repState = RESTING /\ before.repState # RESTING

trackedTriple(type) ==
    CASE type = SQUAT -> LeftLeg
      [] type = PUSHUP -> LeftArm
      [] OTHER -> RightArm

oppositeExtreme(type, pose) ==
    /\ type # NONE
    /\ ~pose.null
    /\ \A i \in 1 .. 3 : trackedTriple(type)[i] \in pose.present
    /\ LET a == pose.angle[trackedTriple(type)]
           th == EXERCISES[type].thresholds
       IN  CASE type \in {SQUAT, PUSHUP} -> a < th.downAngle
             [] type = BICEP_CURL -> a < th.upAngle
             [] OTHER -> a > th.upAngle

----------------------------------------------------------------------------
(* FitnessTracker as first rendered: the hooks' initial values, no camera, *)
(* no capture loop, nothing awaiting detectPose.                           *)
InitialTracker ==
    [isModelLoaded |-> FALSE,
     isTracking |-> FALSE,
     currentExercise |-> NONE,
     hasPose |-> FALSE]

NoLoops == [current |-> << >>, started |-> FALSE, orphans |-> {}]

Unmounted ==
    /\ tracker = InitialTracker
    /\ hasPermission = FALSE
    /\ loops = NoLoops
    /\ pending = << >>
    /\ frames = 0

(* ChatBot as constructed: no message, empty input, not loading, sheet     *)
(* closed; and no handleSend in progress.                                  *)
InitialChatBot ==
    [messages |-> << >>, input |-> << >>, isLoading |-> FALSE,
     isOpen |-> FALSE]

NoSend ==
    [stage |-> "idle",
     userMessage |-> << >>,
     loadingMsgIndex |-> 0,
     before |-> << >>,
     failed |-> "none",
     result |-> [rejected |-> FALSE, value |-> << >>],
     count |-> 0]

ChatClosed ==
    /\ chatBot = InitialChatBot
    /\ send = NoSend

----------------------------------------------------------------------------
(* Init: the caller has just stored initExerciseState(type).               *)
Init ==
    /\ now = 0
    /\ \E type \in ExerciseType : state = initExerciseState(type, now)
    /\ call = NoCall
    /\ opposite = FALSE
    /\ total = 0
    /\ Unmounted
    /\ ChatClosed

(* One frame: the caller passes the state it holds and the frame's pose to *)
(* processExerciseState and stores the result.                             *)
ProcessFrame(pose, dt) ==
    /\ now + dt <= MaxGaps * RestMs(state.type)
    /\ now' = now + dt
    /\ state' = processExerciseState(state, pose, now')
    /\ call' = [done |-> TRUE, pre |-> state, pose |-> pose,
                again |-> call.done /\ call.pose = pose]
    /\ opposite' = (\/ oppositeExtreme(state.type, pose)
                    \/ opposite /\ ~(call.done /\ counted(call.pre, state)))
    /\ total' = IF counted(state, state') THEN total + 1 ELSE total
    /\ UNCHANGED <<uiVars, chatVars>>

Next ==
    \E pose \in Poses(state.type), dt \in FrameGaps(state.type) :
        ProcessFrame(pose, dt)

Spec == Init /\ [][Next]_vars

(* A second specification for the claims made of every input state: the    *)
(* caller may hold any ExerciseState of the type, with any time elapsed    *)
(* since lastRepTimestamp around the end of the rest period, and one frame *)
(* is evaluated on it.  COUNTING is left out: no code assigns it.          *)
AnyElapsed(type) ==
    {0, RestMs(type) - 1000, RestMs(type) - 500, RestMs(type) - 1, RestMs(type)}

AnyStates(type) ==
    {[type |-> type,
      repCount |-> r,
      setCount |-> c,
      repState |-> rs,
      formFeedback |-> fb[2],
      lastRepTimestamp |-> 0,
      formCorrect |-> fb[1]] :
        r \in 0 .. EXERCISES[type].targetReps - 1,
        c \in 1 .. EXERCISES[type].sets,
        rs \in {STARTING, UP, DOWN, RESTING, INCORRECT_FORM},
        fb \in {<<TRUE, << >> >>,
                <<FALSE, << <<"Cannot detect arms clearly">> >> >>}}

InitAny ==
    /\ \E type \in ExerciseType \ {NONE} :
          /\ state \in AnyStates(type)
          /\ now \in AnyElapsed(type)
    /\ call = NoCall
    /\ opposite = FALSE
    /\ total = 0
    /\ Unmounted
    /\ ChatClosed

(* one more frame for the single call: good form, the tracked angle midway *)
(* between the two thresholds and, for the press, the wrist between the    *)
(* two wrist heights the evaluator compares with                           *)
MidBandPoses(type) ==
    {[BasePose EXCEPT
         !.angle = [@ EXCEPT ![trackedTriple(type)] =
                                 (Low(type) + High(type)) \div 2],
         !.y = [@ EXCEPT !["right_wrist"] =
                             IF type = SHOULDER_PRESS THEN -75 ELSE 0]]}

NextAny ==
    /\ ~call.done
    /\ \/ Next
       \/ \E pose \in MidBandPoses(state.type), dt \in FrameGaps(state.type) :
              ProcessFrame(pose, dt)

SpecAny == InitAny /\ [][NextAny]_vars

----------------------------------------------------------------------------
(* The frame loop in webcam mode.  A render of FitnessTracker creates a    *)
(* new processFrame, which closes over the hooks' values of that render;   *)
(* WebcamView receives it as onFrame, a dependency of its frame-capture    *)
(* effect, so every render of FitnessTracker tears the effect down and     *)
(* runs it again.  A render is taken together with the state change that   *)
(* causes it.                                                              *)

MaxFrames == 3

Selectable == {NONE, SQUAT, BICEP_CURL}

(* what detectPose may resolve to for a user doing the exercise: nothing,  *)
(* or a full pose at either end of the movement in good form, or one in    *)
(* bad form (torso bent in the squat, elbow drifted forward in the curl)   *)
DetectedPoses(type) ==
    CASE type = SQUAT ->
           {NullPose} \cup
           {[BasePose EXCEPT !.angle = [@ EXCEPT ![LeftLeg] = v[1],
                                                 ![LeftTorso] = v[2]]] :
               v \in {<<Low(SQUAT) - 1, 180>>, <<High(SQUAT) + 1, 180>>,
                      <<Low(SQUAT) - 1, 159>>}}
      [] type = BICEP_CURL ->
           {NullPose} \cup
           {[BasePose EXCEPT !.angle = [@ EXCEPT ![RightArm] = v[1]],
                             !.x = [@ EXCEPT !["right_elbow"] = v[2]]] :
               v \in {<<Low(BICEP_CURL) - 1, 0>>, <<High(BICEP_CURL) + 1, 0>>,
                      <<High(BICEP_CURL) + 1, 31>>}}
      [] OTHER -> {NullPose, BasePose}

(* the values a processFrame created by a render closes over *)
closure(trk, exerciseState) ==
    [isModelLoaded |-> trk.isModelLoaded,
     isTracking |-> trk.isTracking,
     currentExercise |-> trk.currentExercise,
     exerciseState |-> exerciseState]

(* The frame-capture effect re-run with a new onFrame: the cleanup cancels *)
(* frameId, the first animation frame the old effect requested, which      *)
(* stops the old loop only if that callback has not run yet; then, with    *)
(* the camera playing, a new loop is requested.                            *)
runEffect(l, permitted, onFrame) ==
    LET left == IF l.current # << >> /\ l.started
                THEN l.orphans \cup {l.current[1]}
                ELSE l.orphans
    IN  [current |-> IF permitted THEN <<onFrame>> ELSE << >>,
         started |-> FALSE,
         orphans |-> left]

Remove(seq, i) == SubSeq(seq, 1, i - 1) \o SubSeq(seq, i + 1, Len(seq))

InitUI ==
    /\ now = 0
    /\ state = initExerciseState(NONE, now)
    /\ call = NoCall
    /\ opposite = FALSE
    /\ total = 0
    /\ Unmounted
    /\ ChatClosed

(* startCamera succeeds: onloadedmetadata sets hasPermission, WebcamView   *)
(* renders and its effect runs for the first time.                         *)
StartCamera ==
    /\ ~hasPermission
    /\ hasPermission' = TRUE
    /\ loops' = runEffect(loops, TRUE, closure(tracker, state))
    /\ UNCHANGED <<state, now, call, opposite, total, tracker, pending, frames,
                   chatVars>>

(* loadModel: initPoseDetector resolves *)
LoadModel ==
    /\ ~tracker.isModelLoaded
    /\ tracker' = [tracker EXCEPT !.isModelLoaded = TRUE]
    /\ loops' = runEffect(loops, hasPermission, closure(tracker', state))
    /\ UNCHANGED <<state, now, call, opposite, total, hasPermission, pending,
                   frames, chatVars>>

(* handleToggleTracking; its button is disabled until the model is loaded *)
HandleToggleTracking ==
    /\ tracker.isModelLoaded
    /\ tracker' = [tracker EXCEPT !.isTracking = ~tracker.isTracking]
    /\ loops' = runEffect(loops, hasPermission, closure(tracker', state))
    /\ UNCHANGED <<state, now, call, opposite, total, hasPermission, pending,
                   frames, chatVars>>

(* handleExerciseSelect(type) *)
HandleExerciseSelect(type) ==
    /\ tracker' = [tracker EXCEPT !.currentExercise = type]
    /\ state' = initExerciseState(type, now)
    /\ loops' = runEffect(loops, hasPermission, closure(tracker', state'))
    /\ UNCHANGED <<now, call, opposite, total, hasPermission, pending, frames,
                   chatVars>>

(* An animation frame of one loop: captureFrame calls onFrame, which       *)
(* returns at once when its closure has the model not loaded or tracking   *)
(* off and otherwise starts detectPose; captureFrame does not wait for it  *)
(* and requests the next animation frame.                                  *)
CaptureFrame(ofEffect, onFrame) ==
    /\ frames < MaxFrames
    /\ IF ofEffect
       THEN /\ loops.current = <<onFrame>>
            /\ loops' = [loops EXCEPT !.started = TRUE]
       ELSE /\ onFrame \in loops.orphans
            /\ UNCHANGED loops
    /\ pending' = IF onFrame.isModelLoaded /\ onFrame.isTracking
                  THEN Append(pending, onFrame)
                  ELSE pending
    /\ frames' = frames + 1
    /\ UNCHANGED <<state, now, call, opposite, total, tracker, hasPermission,
                   chatVars>>

(* detectPose of the i-th waiting invocation resolves: setPose, then, with *)
(* a pose and an exercise selected in the closure, processExerciseState on *)
(* the closure's exerciseState and setExerciseState of the result.  React  *)
(* renders unless nothing was set to a new value.                          *)
DetectPoseResolves(i, detectedPose) ==
    LET c == pending[i]
        evaluates == ~detectedPose.null /\ c.currentExercise # NONE
    IN  /\ pending' = Remove(pending, i)
        /\ tracker' = [tracker EXCEPT !.hasPose = ~detectedPose.null]
        /\ IF evaluates
           THEN /\ state' = processExerciseState(c.exerciseState,
                                                 detectedPose, now)
                /\ call' = [done |-> TRUE, pre |-> c.exerciseState,
                            pose |-> detectedPose,
                            again |-> call.done /\ call.pose = detectedPose]
           ELSE UNCHANGED <<state, call>>
        /\ loops' = IF detectedPose.null /\ ~tracker.hasPose
                    THEN loops
                    ELSE runEffect(loops, hasPermission,
                                   closure(tracker', state'))
        /\ UNCHANGED <<now, opposite, total, hasPermission, frames, chatVars>>

(* detectPose of the i-th waiting invocation throws: the catch logs it *)
DetectPoseFails(i) ==
    /\ pending' = Remove(pending, i)
    /\ UNCHANGED <<state, now, call, opposite, total, tracker, hasPermission,
                   loops, frames, chatVars>>

NextUI ==
    \/ StartCamera
    \/ LoadModel
    \/ HandleToggleTracking
    \/ \E type \in Selectable : HandleExerciseSelect(type)
    \/ \E ofEffect \in BOOLEAN :
           \E onFrame \in (IF ofEffect
                            THEN {loops.current[j] : j \in DOMAIN loops.current}
                            ELSE loops.orphans) :
               CaptureFrame(ofEffect, onFrame)
    \/ \E i \in DOMAIN pending :
           \E detectedPose \in DetectedPoses(pending[i].currentExercise) :
               DetectPoseResolves(i, detectedPose)
    \/ \E i \in DOMAIN pending : DetectPoseFails(i)

SpecUI == InitUI /\ [][NextUI]_vars

----------------------------------------------------------------------------
(* Exercise recognition.  detectExerciseType(pose): the first of the three *)
(* tests that succeeds decides; no test returns SHOULDER_PRESS.            *)
detectExerciseType(pose) ==
    IF pose.null THEN NONE
    ELSE IF /\ getKeypoint(pose, "left_hip")
            /\ getKeypoint(pose, "left_knee")
            /\ getKeypoint(pose, "left_ankle")
            /\ calculateAngle(pose, "left_hip", "left_knee", "left_ankle") < 120
    THEN SQUAT
    ELSE IF /\ getKeypoint(pose, "left_shoulder")
            /\ getKeypoint(pose, "left_elbow")
            /\ getKeypoint(pose, "left_wrist")
            /\ calculateAngle(pose, "left_shoulder", "left_elbow",
                              "left_wrist") < 120
    THEN PUSHUP
    ELSE IF /\ getKeypoint(pose, "right_shoulder")
            /\ getKeypoint(pose, "right_elbow")
            /\ getKeypoint(pose, "right_wrist")
            /\ calculateAngle(pose, "right_shoulder", "right_elbow",
                              "right_wrist") < 90
    THEN BICEP_CURL
    ELSE NONE

(* The poses recognition is tried on: the absent pose, and poses with any  *)
(* one landmark of the three tested limbs missing or none, each limb's     *)
(* angle on either side of its test (and the right arm extended as at the  *)
(* top of a press), the right wrist level with the shoulder or 101 px      *)
(* above it.                                                               *)
RecognitionPoses ==
    {NullPose} \cup
    {[BasePose EXCEPT !.present = Landmarks \ gone,
                      !.angle = [@ EXCEPT ![LeftLeg] = leg, ![LeftArm] = arm,
                                          ![RightArm] = rightArm],
                      !.y = [@ EXCEPT !["right_wrist"] = wy]] :
        gone \in {{}, {"left_knee"}, {"left_elbow"}, {"right_elbow"}},
        leg \in {119, 120},
        arm \in {119, 120},
        rightArm \in {89, 90, 171},
        wy \in {0, -101}}

(* Auto mode of the tracker: a frame's pose is detected while no exercise  *)
(* is selected.                                                            *)
InitDetect ==
    /\ now = 0
    /\ state = initExerciseState(NONE, now)
    /\ \E detectedPose \in RecognitionPoses :
          call = [NoCall EXCEPT !.pose = detectedPose]
    /\ opposite = FALSE
    /\ total = 0
    /\ Unmounted
    /\ ChatClosed

(* processFrame in auto mode with currentExercise = NONE: a recognised     *)
(* exercise is selected and its initial state stored.                      *)
AutoDetect ==
    /\ ~call.done
    /\ tracker.currentExercise = NONE
    /\ LET exerciseType == detectExerciseType(call.pose)
       IN  IF exerciseType # NONE
           THEN /\ tracker' = [tracker EXCEPT !.currentExercise = exerciseType]
                /\ state' = initExerciseState(exerciseType, now)
           ELSE UNCHANGED <<tracker, state>>
    /\ call' = [call EXCEPT !.done = TRUE]
    /\ UNCHANGED <<now, opposite, total, hasPermission, loops, pending, frames,
                   chatVars>>

NextDetect == AutoDetect

SpecDetect == InitDetect /\ [][NextDetect]_vars

----------------------------------------------------------------------------
(* The chat assistant (src/components/ChatBot/ChatBot.tsx and              *)
(* src/services/chatService.ts).  A text is the sequence of its            *)
(* characters; the fixed texts of the code are one-element sequences, so   *)
(* that every message content is a sequence of strings.                    *)

MaxLen == 2

MaxSends == 2

Whitespace == {" "}

Chars == Whitespace \cup {"a"}

(* what the user may have typed into the input *)
Inputs == UNION {[1 .. n -> Chars] : n \in 0 .. MaxLen}

(* what response.text() may return *)
Responses == {<<"b">>, <<"b", "b">>}

RECURSIVE trimStart(_)
trimStart(text) ==
    IF text # << >> /\ Head(text) \in Whitespace
    THEN trimStart(Tail(text))
    ELSE text

RECURSIVE trimEnd(_)
trimEnd(text) ==
    IF text # << >> /\ text[Len(text)] \in Whitespace
    THEN trimEnd(SubSeq(text, 1, Len(text) - 1))
    ELSE text

(* String.prototype.trim *)
trim(text) == trimEnd(trimStart(text))

(* Array.prototype.slice(0, end), a negative end counting from the back *)
slice(array, end) ==
    LET to == IF end < 0 THEN Len(array) + end
              ELSE IF end < Len(array) THEN end ELSE Len(array)
    IN  SubSeq(array, 1, IF to < 0 THEN 0 ELSE to)

Welcome ==
    <<"Hi there! I'm your fitness assistant. How can I help you with your workout or fitness questions today?">>

Thinking == <<"Thinking...">>

Trouble ==
    <<"I'm having trouble connecting right now. Please try again later.">>

(* the catch of getChatResponse letting the error through *)
catchError_rethrows(error) == [rejected |-> TRUE, value |-> <<error>>]

(* The catch of getChatResponse: the error is logged and the fixed text    *)
(* returned, so the promise resolves.                                      *)
catchError(error) == [rejected |-> FALSE, value |-> Trouble]

InitChat ==
    /\ now = 0
    /\ state = initExerciseState(NONE, now)
    /\ call = NoCall
    /\ opposite = FALSE
    /\ total = 0
    /\ Unmounted
    /\ ChatClosed

(* onOpenChange of the sheet, with the effect that adds the welcome        *)
(* message when the chat is open and has no message                        *)
OpenChange ==
    /\ chatBot' = [chatBot EXCEPT
                      !.isOpen = ~chatBot.isOpen,
                      !.messages = IF ~chatBot.isOpen /\ Len(@) = 0
                                   THEN <<[content |-> Welcome,
                                           isUser |-> FALSE]>>
                                   ELSE @]
    /\ UNCHANGED <<state, now, call, opposite, total, uiVars, send>>

(* onChange of the input, which is disabled while isLoading *)
SetInput(text) ==
    /\ chatBot.isOpen
    /\ ~chatBot.isLoading
    /\ chatBot' = [chatBot EXCEPT !.input = text]
    /\ UNCHANGED <<state, now, call, opposite, total, uiVars, send>>

(* handleSend up to its await, from the button or the Enter key (both      *)
(* refused while isLoading): the two setMessages updaters run in order on  *)
(* the stored list, loadingMsgIndex is the length of the render's list,    *)
(* and getChatResponse runs up to its own first await; failure names the   *)
(* call that throws before it, if one does.                                *)
HandleSend(failure) ==
    /\ chatBot.isOpen
    /\ ~chatBot.isLoading
    /\ send.stage = "idle"
    /\ send.count < MaxSends
    /\ IF trim(chatBot.input) = << >>
       THEN UNCHANGED chatVars
       ELSE LET userMessage == trim(chatBot.input)
                loadingMsgIndex == Len(chatBot.messages)
            IN  /\ chatBot' =
                       [chatBot EXCEPT
                           !.input = << >>,
                           !.isLoading = TRUE,
                           !.messages =
                               (@ \o <<[content |-> userMessage,
                                        isUser |-> TRUE]>>)
                                  \o <<[content |-> Thinking,
                                        isUser |-> FALSE]>>]
                /\ send' = [stage |-> IF failure = "none"
                                      THEN "sendMessage" ELSE "settled",
                            userMessage |-> userMessage,
                            loadingMsgIndex |-> loadingMsgIndex,
                            before |-> chatBot.messages,
                            failed |-> failure,
                            result |-> IF failure = "none"
                                       THEN NoSend.result
                                       ELSE catchError(failure),
                            count |-> send.count + 1]
    /\ UNCHANGED <<state, now, call, opposite, total, uiVars>>

(* await chat.sendMessage(message) settles *)
SendMessageSettles(fulfilled) ==
    /\ send.stage = "sendMessage"
    /\ send' = IF fulfilled
               THEN [send EXCEPT !.stage = "response"]
               ELSE [send EXCEPT !.stage = "settled",
                                 !.failed = "sendMessage",
                                 !.result = catchError("sendMessage")]
    /\ UNCHANGED <<state, now, call, opposite, total, uiVars, chatBot>>

(* await result.response settles and response.text() is called: outcome is *)
(* the text returned, or the name of the one that fails                    *)
ResponseSettles(outcome) ==
    /\ send.stage = "response"
    /\ send' = IF outcome \in Responses
               THEN [send EXCEPT !.stage = "settled",
                                 !.result = [rejected |-> FALSE,
                                             value |-> outcome]]
               ELSE [send EXCEPT !.stage = "settled",
                                 !.failed = outcome[1],
                                 !.result = catchError(outcome[1])]
    /\ UNCHANGED <<state, now, call, opposite, total, uiVars, chatBot>>

(* handleSend after its await: the updater that puts the response in, or   *)
(* the catch that drops the last entry; then the finally                   *)
HandleSendResumes ==
    /\ send.stage = "settled"
    /\ chatBot' =
           [chatBot EXCEPT
               !.messages =
                   IF send.result.rejected
                   THEN slice(@, -1)
                   ELSE slice(@, send.loadingMsgIndex)
                            \o <<[content |-> send.result.value,
                                  isUser |-> FALSE]>>,
               !.isLoading = FALSE]
    /\ send' = [send EXCEPT !.stage = "idle"]
    /\ UNCHANGED <<state, now, call, opposite, total, uiVars>>

NextChat ==
    \/ OpenChange
    \/ \E text \in Inputs : SetInput(text)
    \/ \E failure \in {"none", "getGenerativeModel", "startChat"} :
           HandleSend(failure)
    \/ \E fulfilled \in BOOLEAN : SendMessageSettles(fulfilled)
    \/ \E outcome \in Responses \cup {<<"response">>, <<"text">>} :
           ResponseSettles(outcome)
    \/ HandleSendResumes

SpecChat == InitChat /\ [][NextChat]_vars

----------------------------------------------------------------------------
(* exerciseState.formIssues as the renderer reads it: the set of landmarks *)
(* marked true.  ExerciseState declares no such property and no evaluator  *)
(* assigns one, so the read yields undefined and no landmark is marked.    *)
formIssues(exerciseState) ==
    IF "formIssues" \in DOMAIN exerciseState
    THEN {l \in DOMAIN exerciseState.formIssues : exerciseState.formIssues[l]}
    ELSE {}

----------------------------------------------------------------------------
(* What the properties say of a call: its input, its frame, and the frame  *)
(* described by the landmarks and thresholds each evaluator is documented  *)
(* to use.                                                                 *)

pre == call.pre

settingsOf(s) == EXERCISES[s.type]

(* the call reached an evaluator: a pose was given and the type is not NONE *)
Evaluated == call.done /\ ~call.pose.null /\ pre.type # NONE

Required(type) ==
    CASE type = SQUAT -> {"left_hip", "left_knee", "left_ankle"}
      [] type = PUSHUP -> {"left_shoulder", "left_elbow", "left_wrist"}
      [] type \in {BICEP_CURL, SHOULDER_PRESS} ->
            {"right_shoulder", "right_elbow", "right_wrist"}
      [] OTHER -> {}

HasAll == Required(pre.type) \subseteq call.pose.present

Abs(n) == IF n < 0 THEN -n ELSE n

(* no form check of the exercise is violated by the frame *)
FormOk ==
    LET p == call.pose
    IN  CASE pre.type = SQUAT ->
               /\ "left_shoulder" \in p.present => p.angle[LeftTorso] >= 160
               /\ p.x["left_knee"] >= p.x["left_ankle"] - 50
          [] pre.type = PUSHUP ->
               {"left_hip", "left_knee"} \subseteq p.present
                   => Abs(p.angle[LeftTorso] - 180) <= 15
          [] pre.type = BICEP_CURL ->
               /\ p.x["right_elbow"] <= p.x["right_shoulder"] + 30
               /\ Abs(p.y["right_shoulder"] - p.y["right_elbow"]) <= 40
          [] pre.type = SHOULDER_PRESS ->
               p.x["right_wrist"] >= p.x["right_elbow"] - 20
          [] OTHER -> TRUE

GoodFrame == Evaluated /\ HasAll /\ FormOk

(* the tracked joint angle of the exercise *)
Tracked ==
    CASE pre.type = SQUAT -> call.pose.angle[LeftLeg]
      [] pre.type = PUSHUP -> call.pose.angle[LeftArm]
      [] OTHER -> call.pose.angle[RightArm]

(* how far the wrist is above the shoulder, in pixels (y grows downwards) *)
WristAbove == call.pose.y["right_shoulder"] - call.pose.y["right_wrist"]

ElapsedMs == now - pre.lastRepTimestamp

Feedback == {state.formFeedback[i] : i \in 1 .. Len(state.formFeedback)}

CountsKept ==
    /\ state.repCount = pre.repCount
    /\ state.setCount = pre.setCount
    /\ state.lastRepTimestamp = pre.lastRepTimestamp

----------------------------------------------------------------------------
(* C1: a call whose returned state has formCorrect = false returns         *)
(* repCount, setCount and lastRepTimestamp equal to the input's: no rep or *)
(* set is counted on a frame with wrong form.                              *)
C1_FrozenWhileFormWrong ==
    (call.done /\ ~state.formCorrect) => CountsKept

(* a squat frame that would have completed a rep, had the back been straight *)
C1_Witness ==
    /\ Evaluated /\ HasAll /\ ~FormOk
    /\ pre.type = SQUAT
    /\ pre.repState = DOWN
    /\ Tracked > settingsOf(pre).thresholds.upAngle
    /\ now > pre.lastRepTimestamp
    /\ ~state.formCorrect

----------------------------------------------------------------------------
(* the call entered RESTING: it completed a set *)
SetCompleted == call.done /\ state.repState = RESTING /\ pre.repState # RESTING

(* C2: in every state reachable from initExerciseState(type), type other   *)
(* than NONE, 0 <= repCount <= targetReps - 1, and repCount is 0 in the    *)
(* state returned by a call that completes a set.                          *)
C2_RepCountInRange ==
    state.type # NONE =>
        /\ 0 <= state.repCount
        /\ state.repCount <= settingsOf(state).targetReps - 1
        /\ SetCompleted => state.repCount = 0

(* the last rep of a set has just been counted *)
C2_Witness ==
    /\ SetCompleted
    /\ pre.repCount = settingsOf(pre).targetReps - 1
    /\ state.repCount = 0

(* C3: from initExerciseState(type) on, setCount never decreases from one  *)
(* call to the next and stays within 1 .. sets.                            *)
C3_SetCountMonotoneBounded ==
    state.type # NONE =>
        /\ 1 <= state.setCount
        /\ state.setCount <= settingsOf(state).sets
        /\ call.done => state.setCount >= pre.setCount

(* the last set has just been completed: setCount saturates at sets *)
C3_Witness ==
    /\ SetCompleted
    /\ pre.setCount = settingsOf(pre).sets
    /\ state.setCount = settingsOf(pre).sets

(* C4: when the pose lacks a landmark the evaluator requires, the call     *)
(* returns non-empty formFeedback and formCorrect = false, and repCount,   *)
(* setCount, repState and lastRepTimestamp equal to the input's.           *)
C4_MissingLandmarkFreezes ==
    (Evaluated /\ ~HasAll) =>
        /\ state.formFeedback # << >>
        /\ ~state.formCorrect
        /\ CountsKept
        /\ state.repState = pre.repState

(* a required landmark is lost in the middle of a repetition, on a clock   *)
(* value later than the last rep                                           *)
C4_Witness ==
    /\ Evaluated /\ ~HasAll
    /\ pre.repState \in {UP, DOWN}
    /\ pre.formCorrect
    /\ now > pre.lastRepTimestamp
    /\ state.repState = pre.repState

----------------------------------------------------------------------------
(* C5, as stated: whenever a returned state has formCorrect = false and    *)
(* repState in {UP, DOWN}, the very next evaluation returns repState =     *)
(* INCORRECT_FORM, whatever its pose.  In Spec every input of a call is    *)
(* the initial state or a returned state; an evaluation is taken to be a   *)
(* call that is given a pose.                                              *)
C5_AsStated ==
    (Evaluated /\ ~pre.formCorrect /\ pre.repState \in {UP, DOWN})
        => state.repState = INCORRECT_FORM

(* C5, amended: whenever a returned state has formCorrect = false and      *)
(* repState in {UP, DOWN}, the very next evaluation returns repState =     *)
(* INCORRECT_FORM exactly when its pose has all required landmarks and     *)
(* violates a form check.                                                  *)
C5_GateDependsOnNextPose ==
    (call.done /\ ~pre.formCorrect /\ pre.repState \in {UP, DOWN})
        => (state.repState = INCORRECT_FORM <=> (Evaluated /\ HasAll /\ ~FormOk))

C5_Witness ==
    /\ call.done /\ ~pre.formCorrect /\ pre.repState \in {UP, DOWN}
    /\ Evaluated /\ HasAll /\ ~FormOk
    /\ state.repState = INCORRECT_FORM

(* C6: if the input repState is INCORRECT_FORM and the pose has all        *)
(* required landmarks and violates no form check, the call returns         *)
(* repState in {UP, DOWN}, formCorrect = true and a 'Good form, continue   *)
(* your exercise' feedback entry.                                          *)
C6_RecoversAtOnce ==
    (GoodFrame /\ pre.repState = INCORRECT_FORM) =>
        /\ state.repState \in {UP, DOWN}
        /\ state.formCorrect
        /\ <<"Good form, continue your exercise">> \in Feedback

C6_Witness ==
    /\ GoodFrame /\ pre.repState = INCORRECT_FORM /\ ~pre.formCorrect
    /\ state.repState = DOWN

(* the frame satisfies the threshold condition that completes a rep, on an *)
(* input state in the position from which the exercise counts              *)
Completing ==
    /\ GoodFrame
    /\ LET th == settingsOf(pre).thresholds
       IN  CASE pre.type \in {SQUAT, PUSHUP} ->
                  pre.repState = DOWN /\ Tracked > th.upAngle
             [] pre.type = BICEP_CURL ->
                  pre.repState = UP /\ Tracked > th.downAngle
             [] pre.type = SHOULDER_PRESS ->
                  pre.repState = UP /\ Tracked < th.downAngle /\ WristAbove < 50
             [] OTHER -> FALSE

SetReached == pre.repCount + 1 >= settingsOf(pre).targetReps

Min(a, b) == IF a < b THEN a ELSE b

(* C7: a rep-completing call increments repCount and sets lastRepTimestamp *)
(* to the current time; when the incremented repCount reaches targetReps   *)
(* the returned state has repCount 0, repState RESTING and setCount =      *)
(* min(input setCount + 1, sets), with 'Workout complete! Great job!' when *)
(* input setCount + 1 exceeds sets and 'Set N complete! Rest for R         *)
(* seconds.' (N the input setCount) otherwise.                             *)
C7_RepCompletion ==
    Completing =>
        /\ state.lastRepTimestamp = now
        /\ IF SetReached
           THEN /\ state.repCount = 0
                /\ state.repState = RESTING
                /\ state.setCount = Min(pre.setCount + 1, settingsOf(pre).sets)
                /\ IF pre.setCount + 1 > settingsOf(pre).sets
                   THEN <<"Workout complete! Great job!">> \in Feedback
                   ELSE <<"Set ", pre.setCount, " complete! Rest for ",
                          settingsOf(pre).restBetweenSets, " seconds.">>
                            \in Feedback
           ELSE /\ state.repCount = pre.repCount + 1
                /\ state.setCount = pre.setCount

(* the last rep of the second set, counted later than the previous rep *)
C7_Witness ==
    /\ Completing /\ SetReached
    /\ pre.setCount = 2
    /\ now > pre.lastRepTimestamp
    /\ state.repState = RESTING

(* the returned state shows one more rep counted at the current time *)
RepCounted ==
    /\ state.lastRepTimestamp = now
    /\ state.repCount = (IF SetReached THEN 0 ELSE pre.repCount + 1)

(* C8: squat and push-up, on a frame with all required landmarks and no    *)
(* form violation: from STARTING or UP the state becomes DOWN exactly when *)
(* the tracked angle < downAngle, counts unchanged; from DOWN a rep        *)
(* completes (repState UP, or RESTING at a set boundary) exactly when the  *)
(* tracked angle > upAngle; otherwise repState stays as it was.            *)
C8_FlexionCycle ==
    (GoodFrame /\ pre.type \in {SQUAT, PUSHUP}
               /\ pre.repState \in {STARTING, UP, DOWN}) =>
        LET th == settingsOf(pre).thresholds
        IN  IF pre.repState \in {STARTING, UP}
            THEN /\ CountsKept
                 /\ state.repState =
                        (IF Tracked < th.downAngle THEN DOWN ELSE pre.repState)
            ELSE IF Tracked > th.upAngle
                 THEN /\ RepCounted
                      /\ state.repState = (IF SetReached THEN RESTING ELSE UP)
                 ELSE /\ CountsKept
                      /\ state.repState = DOWN

(* a push-up frame exactly on upAngle, from DOWN: no rep is counted *)
C8_Witness ==
    /\ GoodFrame /\ pre.type = PUSHUP
    /\ pre.repState = DOWN
    /\ Tracked = settingsOf(pre).thresholds.upAngle
    /\ state.repState = DOWN

C10_RestNeverEndsEarly ==
    (call.done /\ pre.repState = RESTING
               /\ ElapsedMs < settingsOf(pre).restBetweenSets * 1000)
        => state.repState = RESTING

(* a complete frame one millisecond before the rest is over *)
C10_Witness ==
    /\ GoodFrame /\ pre.repState = RESTING
    /\ ElapsedMs = settingsOf(pre).restBetweenSets * 1000 - 1
    /\ state.repState = RESTING

----------------------------------------------------------------------------
(* C11, as stated: every evaluation of a state with repState = RESTING at  *)
(* which the time elapsed since lastRepTimestamp is >= restBetweenSets     *)
(* (equality included) returns repState = STARTING.                        *)
C11_RestEndsOnTime ==
    (Evaluated /\ pre.repState = RESTING
               /\ ElapsedMs >= settingsOf(pre).restBetweenSets * 1000)
        => state.repState = STARTING

(* C12: processExerciseState is a no-op when the pose is absent or the     *)
(* type is NONE: the returned state equals the input in every field.       *)
C12_NoOpWithoutPoseOrType ==
    (call.done /\ (call.pose.null \/ pre.type = NONE)) => state = pre

(* an absent pose on a RESTING state whose rest is over, with feedback and *)
(* a cleared formCorrect that an evaluation would have replaced            *)
C12_Witness ==
    /\ call.done /\ call.pose.null
    /\ pre.type # NONE
    /\ pre.repState = RESTING
    /\ ElapsedMs >= settingsOf(pre).restBetweenSets * 1000
    /\ pre.formFeedback # << >>
    /\ ~pre.formCorrect
    /\ state = pre

(* C15: formFeedback and formCorrect are recomputed from scratch: for a    *)
(* non-absent pose and a type other than NONE, an input state that differs *)
(* from the one evaluated only in formFeedback and formCorrect gives the   *)
(* same returned state at the same clock value.                            *)
FeedbackVariants ==
    {<<TRUE, << >> >>,
     <<FALSE, << <<"Keep your back straighter">>,
                 <<"Fix your form to continue">> >> >>,
     <<TRUE, << <<"Good form, continue your exercise">> >> >>,
     <<FALSE, << <<"Cannot detect arms clearly">> >> >>}

C15_FeedbackRecomputed ==
    Evaluated =>
        \A v \in FeedbackVariants :
            processExerciseState([pre EXCEPT !.formCorrect = v[1],
                                             !.formFeedback = v[2]],
                                 call.pose, now) = state

(* an input with old feedback and formCorrect = false, a frame that finds  *)
(* nothing wrong                                                           *)
C15_Witness ==
    /\ GoodFrame
    /\ ~pre.formCorrect /\ pre.formFeedback # << >>
    /\ pre.repState \in {UP, DOWN}
    /\ state.formCorrect /\ state.formFeedback = << >>

(* C16: in every run from the initial state, a call that returns repState  *)
(* = INCORRECT_FORM from an input whose repState was not INCORRECT_FORM    *)
(* had input repState in {UP, DOWN}.                                       *)
C16_IncorrectFormFromUpDownOnly ==
    (call.done /\ state.repState = INCORRECT_FORM
               /\ pre.repState # INCORRECT_FORM)
        => pre.repState \in {UP, DOWN}

C16_Witness ==
    /\ call.done /\ state.repState = INCORRECT_FORM
    /\ pre.repState = DOWN
    /\ pre.repCount > 0

(* C17: RESTING is entered only by the call that completes a set, and      *)
(* STARTING occurs only as the initial state or as the result of a call on *)
(* a RESTING state (or on a state that was STARTING already).              *)
C17_RestingAndStartingEntries ==
    /\ ~call.done => state.repState = STARTING
    /\ (call.done /\ state.repState = RESTING /\ pre.repState # RESTING)
           => (Completing /\ SetReached)
    /\ (call.done /\ state.repState = STARTING /\ pre.repState # STARTING)
           => pre.repState = RESTING

(* the second set starts after the first rest *)
C17_Witness ==
    /\ call.done
    /\ pre.repState = RESTING
    /\ state.repState = STARTING
    /\ state.setCount = 2

(* the feedback entries of the form checks the frame violates *)
ViolatedMessages ==
    LET p == call.pose
    IN  CASE pre.type = SQUAT ->
               (IF "left_shoulder" \in p.present /\ p.angle[LeftTorso] < 160
                THEN {<<"Keep your back straighter">>} ELSE {}) \cup
               (IF p.x["left_knee"] < p.x["left_ankle"] - 50
                THEN {<<"Knees too far forward, shift weight to heels">>}
                ELSE {})
          [] pre.type = PUSHUP ->
               (IF /\ {"left_hip", "left_knee"} \subseteq p.present
                   /\ Abs(p.angle[LeftTorso] - 180) > 15
                THEN {<<"Keep your body straight">>} ELSE {})
          [] pre.type = BICEP_CURL ->
               (IF p.x["right_elbow"] > p.x["right_shoulder"] + 30
                THEN {<<"Keep your elbows close to your body">>} ELSE {}) \cup
               (IF Abs(p.y["right_shoulder"] - p.y["right_elbow"]) > 40
                THEN {<<"Minimize shoulder movement, focus on elbow flexion">>}
                ELSE {})
          [] pre.type = SHOULDER_PRESS ->
               (IF p.x["right_wrist"] < p.x["right_elbow"] - 20
                THEN {<<"Press directly upward">>} ELSE {})
          [] OTHER -> {}

(* C18: a form violation detected while the input repState is STARTING or  *)
(* RESTING is reported as data only: formCorrect = false and the violated  *)
(* check's feedback are returned, and repState is not INCORRECT_FORM.      *)
C18_ViolationAsDataOnly ==
    (Evaluated /\ HasAll /\ ~FormOk /\ pre.repState \in {STARTING, RESTING}) =>
        /\ ~state.formCorrect
        /\ ViolatedMessages # {}
        /\ ViolatedMessages \subseteq Feedback
        /\ state.repState # INCORRECT_FORM

(* a violating frame on a RESTING state whose rest is not over *)
C18_Witness ==
    /\ Evaluated /\ HasAll /\ ~FormOk
    /\ pre.repState = RESTING
    /\ ElapsedMs < settingsOf(pre).restBetweenSets * 1000
    /\ state.repState = RESTING
    /\ ~state.formCorrect

(* C19, as stated: for bicep curl with repState = UP and all required      *)
(* landmarks present, whenever the elbow is more than 30 px horizontally   *)
(* away from the shoulder, the call returns repState = INCORRECT_FORM,     *)
(* the feedback 'Keep your elbows close to your body', and repCount        *)
(* unchanged.                                                              *)
C19_ElbowDriftGates ==
    (Evaluated /\ HasAll /\ pre.type = BICEP_CURL /\ pre.repState = UP
               /\ Abs(call.pose.x["right_elbow"]
                      - call.pose.x["right_shoulder"]) > 30) =>
        /\ state.repState = INCORRECT_FORM
        /\ <<"Keep your elbows close to your body">> \in Feedback
        /\ state.repCount = pre.repCount

----------------------------------------------------------------------------
(* C13, as stated: in every run from the initial state, each increment of  *)
(* repCount occurs on a frame where the tracked joint satisfies the        *)
(* completing threshold condition (squat, push-up: angle > upAngle; curl:  *)
(* angle > downAngle; press: angle < downAngle), and since the previous    *)
(* increment (or the start) an earlier frame satisfied the opposite        *)
(* threshold condition.                                                    *)
C13_RepIsFullCycle ==
    (call.done /\ counted(pre, state)) =>
        /\ Evaluated /\ HasAll
        /\ LET th == settingsOf(pre).thresholds
           IN  CASE pre.type \in {SQUAT, PUSHUP} -> Tracked > th.upAngle
                 [] pre.type = BICEP_CURL -> Tracked > th.downAngle
                 [] OTHER -> Tracked < th.downAngle
        /\ opposite

----------------------------------------------------------------------------
(* C14: after any call, the ExerciseState object passed in, its            *)
(* formFeedback array included, has exactly the field values it had before *)
(* the call; every change is in the returned value only (the value the     *)
(* caller stores).                                                         *)
C14_CallerStateUntouched ==
    call.done =>
        /\ processOnHeap(pre, call.pose, now).caller = pre
        /\ processOnHeap(pre, call.pose, now).returned = state

(* a call whose input carried feedback and which returned another repState *)
(* and other feedback                                                      *)
C14_Witness ==
    /\ Evaluated
    /\ pre.formFeedback # << >>
    /\ state.formFeedback # << >>
    /\ state.formFeedback # pre.formFeedback
    /\ state.repState # pre.repState
    /\ processOnHeap(pre, call.pose, now).caller = pre

----------------------------------------------------------------------------
(* C20, as stated: frame processing is serial; no two invocations of       *)
(* processFrame that will evaluate the same exercise state are awaiting    *)
(* pose detection at the same time.                                        *)
C20_FramesSerial ==
    \A i, j \in DOMAIN pending :
        (/\ i # j
         /\ pending[i].currentExercise # NONE
         /\ pending[j].currentExercise # NONE)
            => pending[i].exerciseState # pending[j].exerciseState

----------------------------------------------------------------------------
(* C21, as stated: the stored exerciseState always has the type of         *)
(* currentExercise: once handleExerciseSelect(type) has stored             *)
(* initExerciseState(type), no frame that was being processed at the time  *)
(* of the selection stores a state of the previously selected type.        *)
C21_StoredTypeIsCurrentExercise ==
    state.type = tracker.currentExercise

----------------------------------------------------------------------------
(* the landmarks compared by the form checks the frame violates *)
Implicated ==
    LET p == call.pose
    IN  CASE pre.type = SQUAT ->
               (IF "left_shoulder" \in p.present /\ p.angle[LeftTorso] < 160
                THEN {"left_shoulder", "left_hip", "left_knee"} ELSE {}) \cup
               (IF p.x["left_knee"] < p.x["left_ankle"] - 50
                THEN {"left_knee", "left_ankle"} ELSE {})
          [] pre.type = PUSHUP ->
               (IF /\ {"left_hip", "left_knee"} \subseteq p.present
                   /\ Abs(p.angle[LeftTorso] - 180) > 15
                THEN {"left_shoulder", "left_hip", "left_knee"} ELSE {})
          [] pre.type = BICEP_CURL ->
               (IF \/ p.x["right_elbow"] > p.x["right_shoulder"] + 30
                   \/ Abs(p.y["right_shoulder"] - p.y["right_elbow"]) > 40
                THEN {"right_shoulder", "right_elbow"} ELSE {})
          [] pre.type = SHOULDER_PRESS ->
               (IF p.x["right_wrist"] < p.x["right_elbow"] - 20
                THEN {"right_elbow", "right_wrist"} ELSE {})
          [] OTHER -> {}

(* C22, as stated: the state returned by every evaluation carries a        *)
(* formIssues map that marks exactly the landmarks implicated by the form  *)
(* checks violated on the current frame, and is empty when none is.        *)
C22_FormIssuesMarkViolations ==
    (Evaluated /\ HasAll) => formIssues(state) = Implicated

----------------------------------------------------------------------------
(* the call stopped at the evaluator's landmark check *)
StoppedAtLandmarkCheck ==
    state.formFeedback \in {<< <<"Cannot detect legs clearly">> >>,
                            << <<"Cannot detect arms clearly">> >>}

(* C23: every catalog entry other than NONE has targetReps > 0, sets > 0,  *)
(* restBetweenSets >= 0 and upAngle # downAngle, and the landmarks its     *)
(* evaluator requires before advancing the state machine are members of    *)
(* its primaryLandmarks: a frame that has every primary landmark passes    *)
(* the evaluator's landmark check.                                         *)
C23_CatalogWellFormed ==
    /\ \A t \in ExerciseType \ {NONE} :
          /\ EXERCISES[t].targetReps > 0
          /\ EXERCISES[t].sets > 0
          /\ EXERCISES[t].restBetweenSets >= 0
          /\ EXERCISES[t].thresholds.upAngle # EXERCISES[t].thresholds.downAngle
          /\ Required(t) \subseteq EXERCISES[t].primaryLandmarks
    /\ (Evaluated /\ settingsOf(pre).primaryLandmarks \subseteq call.pose.present)
          => ~StoppedAtLandmarkCheck
    /\ (Evaluated /\ ~HasAll) => StoppedAtLandmarkCheck

(* a frame that has every primary landmark but not all others, on which    *)
(* the state machine advanced                                              *)
C23_Witness ==
    /\ Evaluated
    /\ settingsOf(pre).primaryLandmarks \subseteq call.pose.present
    /\ call.pose.present # Landmarks
    /\ state.repState # pre.repState
    /\ state.repState \in {UP, DOWN}

----------------------------------------------------------------------------
(* C24, as stated: detectExerciseType returns NONE for an absent pose, and *)
(* for each supported exercise (squat, push-up, bicep curl, shoulder       *)
(* press) there is a pose for which it returns that exercise's type,       *)
(* among the poses recognition is tried on and the frame at hand.          *)
C24_RecognitionCoversExercises ==
    /\ detectExerciseType(NullPose) = NONE
    /\ \A type \in ExerciseType \ {NONE} :
          \E pose \in RecognitionPoses \cup {call.pose} :
              detectExerciseType(pose) = type

----------------------------------------------------------------------------
(* C25: for every exercise type, when all required landmarks are present,  *)
(* at least one form check fails on the frame and the input repState is UP *)
(* or DOWN, the call returns repState = INCORRECT_FORM with 'Fix your form *)
(* to continue' as the last feedback entry and makes no rep-cycle          *)
(* transition: the counts and lastRepTimestamp are the input's, even when  *)
(* the frame's angle would otherwise have completed a rep.                 *)
C25_FormGate ==
    (Evaluated /\ HasAll /\ ~FormOk /\ pre.repState \in {UP, DOWN}) =>
        /\ state.repState = INCORRECT_FORM
        /\ ~state.formCorrect
        /\ Len(state.formFeedback) >= 2
        /\ state.formFeedback[Len(state.formFeedback)]
              = <<"Fix your form to continue">>
        /\ CountsKept

(* a push-up frame with a sagging body whose elbow angle would have        *)
(* completed the last rep of a set                                         *)
C25_Witness ==
    /\ Evaluated /\ HasAll /\ ~FormOk
    /\ pre.type = PUSHUP
    /\ pre.repState = DOWN
    /\ Tracked > settingsOf(pre).thresholds.upAngle
    /\ SetReached
    /\ state.repState = INCORRECT_FORM
    /\ state.repCount = pre.repCount

----------------------------------------------------------------------------
(* the number of reps of a whole workout of the exercise *)
WorkoutReps == settingsOf(pre).sets * settingsOf(pre).targetReps

WorkoutComplete == <<"Workout complete! Great job!">> \in Feedback

(* C26: in every run from initExerciseState(type), 'Workout complete!      *)
(* Great job!' is emitted by the call that counts the (sets x              *)
(* targetReps)-th rep and by no call before it, and every earlier call     *)
(* that closes a set emits 'Set N complete! Rest for R seconds.' with N    *)
(* the number of the set just finished.                                    *)
C26_WorkoutCompleteAtLastRep ==
    call.done =>
        /\ WorkoutComplete => total >= WorkoutReps
        /\ (counted(pre, state) /\ total = WorkoutReps) => WorkoutComplete
        /\ (counted(pre, state) /\ state.repState = RESTING
                                /\ total < WorkoutReps) =>
              /\ total % settingsOf(pre).targetReps = 0
              /\ <<"Set ", total \div settingsOf(pre).targetReps,
                   " complete! Rest for ", settingsOf(pre).restBetweenSets,
                   " seconds.">> \in Feedback
              /\ ~WorkoutComplete

(* the call that counts the last rep of the last set of a curl workout *)
C26_Witness ==
    /\ call.done
    /\ pre.type = BICEP_CURL
    /\ counted(pre, state)
    /\ total = WorkoutReps
    /\ WorkoutComplete
    /\ state.setCount = settingsOf(pre).sets

----------------------------------------------------------------------------
(* the tracked angle is in the closed band between the two thresholds *)
InBand == Low(pre.type) <= Tracked /\ Tracked <= High(pre.type)

(* C27: for squat, push-up and bicep curl, a frame with all required       *)
(* landmarks, no form violation and a tracked angle inside the closed band *)
(* between downAngle and upAngle leaves repState unchanged when it is      *)
(* STARTING, UP or DOWN, and leaves repCount and setCount unchanged; an    *)
(* angle equal to a threshold triggers no transition.                      *)
C27_BandIsInert ==
    (/\ GoodFrame
     /\ pre.type \in {SQUAT, PUSHUP, BICEP_CURL}
     /\ pre.repState \in {STARTING, UP, DOWN}
     /\ InBand) =>
        /\ state.repState = pre.repState
        /\ state.repCount = pre.repCount
        /\ state.setCount = pre.setCount

(* a curl frame with the elbow exactly at downAngle while the arm is up,   *)
(* one rep short of the set                                                *)
C27_Witness ==
    /\ GoodFrame /\ pre.type = BICEP_CURL
    /\ pre.repState = UP
    /\ Tracked = settingsOf(pre).thresholds.downAngle
    /\ SetReached
    /\ state.repState = UP
    /\ state.repCount = pre.repCount

----------------------------------------------------------------------------
(* how an angle stands to a threshold: below, on, or above it *)
Relation(angle, threshold) ==
    IF angle < threshold THEN "below"
    ELSE IF angle = threshold THEN "on" ELSE "above"

(* C28, as stated: on recovery from INCORRECT_FORM (form correct, all      *)
(* required landmarks present) the choice of UP or DOWN is decided, for    *)
(* every exercise type, by comparing the tracked joint angle with          *)
(* thresholds.downAngle alone: any other recovery frame whose tracked      *)
(* angle stands in the same relation to downAngle leads to the same        *)
(* choice.                                                                 *)
C28_RecoveryByDownAngle ==
    (GoodFrame /\ pre.repState = INCORRECT_FORM) =>
        \A other \in Poses(pre.type) \cup MidBandPoses(pre.type) :
            LET chosen == processExerciseState(pre, other, now)
                downAngle == settingsOf(pre).thresholds.downAngle
            IN  (/\ ~other.null
                 /\ Required(pre.type) \subseteq other.present
                 /\ chosen.formCorrect
                 /\ Relation(other.angle[trackedTriple(pre.type)], downAngle)
                      = Relation(Tracked, downAngle))
                    => chosen.repState = state.repState

----------------------------------------------------------------------------
(* the positions of the timer messages in the returned feedback *)
TimerEntries ==
    {i \in 1 .. Len(state.formFeedback) :
        state.formFeedback[i][1] \in {"Starting set ", "Rest: "}}

(* the milliseconds of rest left at the call *)
RemainingMs == settingsOf(pre).restBetweenSets * 1000 - ElapsedMs

(* C29: every evaluation of a RESTING state with all required landmarks    *)
(* present emits exactly one timer message: 'Starting set N' with N the    *)
(* current setCount when the rest is over, otherwise 'Rest: Ks remaining'  *)
(* with K the remaining seconds rounded to the nearest integer (halves     *)
(* upwards); repCount, setCount and lastRepTimestamp are unchanged.        *)
C29_OneTimerMessage ==
    (Evaluated /\ HasAll /\ pre.repState = RESTING) =>
        /\ Cardinality(TimerEntries) = 1
        /\ CountsKept
        /\ \A i \in TimerEntries :
              LET entry == state.formFeedback[i]
              IN  IF RemainingMs <= 0
                  THEN entry = <<"Starting set ", pre.setCount>>
                  ELSE /\ Len(entry) = 3
                       /\ entry[1] = "Rest: " /\ entry[3] = "s remaining"
                       /\ entry[2] * 1000 - 500 <= RemainingMs
                       /\ RemainingMs < entry[2] * 1000 + 500

(* rest 60 and elapsed 59: '1s remaining', on a frame that also violates a *)
(* form check                                                              *)
C29_Witness ==
    /\ Evaluated /\ HasAll /\ ~FormOk
    /\ pre.repState = RESTING
    /\ settingsOf(pre).restBetweenSets = 60
    /\ ElapsedMs = 59000
    /\ <<"Rest: ", 1, "s remaining">> \in Feedback
    /\ Len(state.formFeedback) >= 2

----------------------------------------------------------------------------
(* C30: in every run from the initial state, for every exercise type, a    *)
(* call given the same pose as the call before it, whatever the time       *)
(* between the two, increments neither repCount nor setCount: it counts no *)
(* rep and closes no set.                                                  *)
C30_DuplicateFrameCountsNothing ==
    (call.done /\ call.again) =>
        /\ ~counted(pre, state)
        /\ state.repCount = pre.repCount
        /\ state.setCount = pre.setCount

(* a squat frame with the knee beyond upAngle, the frame that completes a  *)
(* rep from DOWN, evaluated again after the first rep has been counted     *)
C30_Witness ==
    /\ GoodFrame /\ call.again
    /\ pre.type = SQUAT
    /\ Tracked > settingsOf(pre).thresholds.upAngle
    /\ pre.repState = UP
    /\ pre.repCount = 1
    /\ total = 1
    /\ state.repCount = 1

----------------------------------------------------------------------------
(* C31: the call that recovers from INCORRECT_FORM never counts: for every *)
(* exercise type, when the input repState is INCORRECT_FORM the returned   *)
(* repCount, setCount and lastRepTimestamp equal the input's, although the *)
(* freshly chosen UP or DOWN state goes through the rep-cycle switch in    *)
(* the same call.                                                          *)
C31_RecoveryNeverCounts ==
    (call.done /\ pre.repState = INCORRECT_FORM) => CountsKept

(* a recovery at the extreme at which a rep is counted: the tracked joint  *)
(* beyond the counting threshold (for the press, with the wrist back at    *)
(* the shoulder), on a clock that has moved since lastRepTimestamp         *)
C31_Witness ==
    /\ GoodFrame
    /\ pre.repState = INCORRECT_FORM
    /\ state.repState \in {UP, DOWN}
    /\ now > pre.lastRepTimestamp
    /\ CASE pre.type \in {SQUAT, PUSHUP} ->
              Tracked > settingsOf(pre).thresholds.upAngle
         [] pre.type = BICEP_CURL ->
              Tracked > settingsOf(pre).thresholds.downAngle
         [] OTHER ->
              /\ Tracked < settingsOf(pre).thresholds.downAngle
              /\ WristAbove < 50

----------------------------------------------------------------------------
(* C32: INCORRECT_FORM persists exactly while form stays bad: a call on a  *)
(* state with repState = INCORRECT_FORM of an exercise type whose pose is  *)
(* absent, lacks a required landmark or violates a form check returns      *)
(* repState = INCORRECT_FORM with repCount and setCount unchanged; the     *)
(* state is left only on a complete, violation-free frame.                 *)
C32_IncorrectFormPersists ==
    (call.done /\ pre.type # NONE /\ pre.repState = INCORRECT_FORM)
        => /\ (call.pose.null \/ ~HasAll \/ ~FormOk)
                => /\ state.repState = INCORRECT_FORM
                   /\ state.repCount = pre.repCount
                   /\ state.setCount = pre.setCount
           /\ state.repState # INCORRECT_FORM => GoodFrame

(* a frame with every landmark and a violated form check, evaluated on a   *)
(* state in INCORRECT_FORM                                                 *)
C32_Witness ==
    /\ Evaluated
    /\ HasAll
    /\ ~FormOk
    /\ pre.repState = INCORRECT_FORM
    /\ state.repState = INCORRECT_FORM

----------------------------------------------------------------------------
(* C33: lastRepTimestamp changes only when a rep is completed: any call    *)
(* that does not complete a rep (RESTING countdown calls, the RESTING to   *)
(* STARTING call, form-gate calls and missing-landmark calls included)     *)
(* returns lastRepTimestamp equal to the input's.                          *)
C33_TimestampOnlyOnRep ==
    (call.done /\ ~counted(pre, state))
        => state.lastRepTimestamp = pre.lastRepTimestamp

(* the call that ends the rest, on a clock that has moved since the rep    *)
(* that ended the set                                                      *)
C33_Witness ==
    /\ Evaluated
    /\ pre.repState = RESTING
    /\ state.repState = STARTING
    /\ now > pre.lastRepTimestamp
    /\ state.lastRepTimestamp = pre.lastRepTimestamp

----------------------------------------------------------------------------
(* C34: a single call counts at most one rep and one set: for every input  *)
(* state and pose the returned repCount is the input repCount, the input   *)
(* repCount + 1, or 0 (the last only on a set-completing call), and the    *)
(* returned setCount is the input setCount or the input setCount + 1.      *)
C34_AtMostOneRepAndSet ==
    call.done =>
        /\ \/ state.repCount = pre.repCount
           \/ state.repCount = pre.repCount + 1
           \/ state.repCount = 0 /\ SetCompleted
        /\ state.setCount \in {pre.setCount, pre.setCount + 1}

(* the call that completes a set which is not the last: the rep count goes *)
(* back to 0 from a positive value and the set count goes up by one        *)
C34_Witness ==
    /\ SetCompleted
    /\ pre.repCount > 0
    /\ state.repCount = 0
    /\ state.setCount = pre.setCount + 1

----------------------------------------------------------------------------
(* C35, as stated: cleanup of WebcamView's frame-capture effect stops its  *)
(* loop: once the effect is torn down, the captureFrame loop it started    *)
(* schedules no further animation frame and never calls onFrame again, so  *)
(* no loop other than the current effect's is running.                     *)
C35_CleanupStopsLoop == loops.orphans = {}

----------------------------------------------------------------------------
(* C36, as stated: no exercise-state update is lost or computed from a     *)
(* stale state: every state processFrame stores is processExerciseState    *)
(* applied to the state stored immediately before it, and the stored       *)
(* repCount never decreases except by the reset to 0 at a set boundary or  *)
(* on exercise selection.                                                  *)
C36_NoStaleUpdate ==
    [][Len(pending') < Len(pending) =>
          /\ call' # call => call'.pre = state
          /\ state'.repCount < state.repCount =>
                 /\ state'.repCount = 0
                 /\ state'.repState = RESTING
                 /\ state.repState # RESTING]_vars

----------------------------------------------------------------------------
(* C37, as stated: pausing tracking stops counting: while isTracking is    *)
(* false no frame callback changes the stored exerciseState, callbacks     *)
(* that were awaiting pose detection at the pause included.                *)
C37_PauseStopsCounting ==
    [][(/\ ~tracker.isTracking
        /\ ~tracker'.isTracking
        /\ Len(pending') < Len(pending)) => state' = state]_vars

----------------------------------------------------------------------------
(* C38, as stated: ChatBot.handleSend replaces only the temporary          *)
(* 'Thinking...' entry with the response: after a send of a non-empty      *)
(* input has completed successfully, the message list is the list as it    *)
(* was before the send, followed by the user's message and then the        *)
(* assistant's response.                                                   *)
C38_OnlyThinkingReplaced ==
    (send.stage = "idle" /\ send.count > 0 /\ send.failed = "none")
        => chatBot.messages =
               (send.before \o <<[content |-> send.userMessage,
                                  isUser |-> TRUE]>>)
                  \o <<[content |-> send.result.value, isUser |-> FALSE]>>

----------------------------------------------------------------------------
(* C39: getChatResponse never rejects: whatever fails while the model is   *)
(* created, the chat started or the message sent, the returned promise     *)
(* resolves to the fixed text "I'm having trouble connecting right now.    *)
(* Please try again later."; and after every send ChatBot's isLoading flag *)
(* is false again.                                                         *)
C39_ChatResponseNeverRejects ==
    /\ send.stage = "settled" =>
           /\ ~send.result.rejected
           /\ send.failed # "none" => send.result.value = Trouble
    /\ send.stage = "idle" => ~chatBot.isLoading

(* a send whose chat.sendMessage was rejected has finished: the fixed text *)
(* is the last message and the flag is down                                *)
C39_Witness ==
    /\ send.stage = "idle"
    /\ send.count > 0
    /\ send.failed = "sendMessage"
    /\ ~chatBot.isLoading
    /\ chatBot.messages[Len(chatBot.messages)].content = Trouble

====
